---- MODULE Spec2Model ----
(***************************************************************************)
(* unireo: mono calibration (calib/mono_calib.py, calib/calib_data.py) and *)
(* the stereo camera object (cam_info/cam_ctrl.py).                        *)
(*                                                                         *)
(* Python values that the code can confuse with one another (a tuple, an   *)
(* int, an ndarray, None) carry their Python type, so that a field holding *)
(* a value of the wrong type is visible.  A call's outcome is either       *)
(* Return(value) or Raise(exception name).                                 *)
(*                                                                         *)
(* OpenCV is a deterministic library.  Its numerical results are modelled  *)
(* by a small pinhole camera in integer half-pixel units: a board image    *)
(* shows the pattern fronto-parallel at an origin, the grid spacing is     *)
(* GridSpacing units, and the detector's error sits on corner 0.           *)
(***************************************************************************)
EXTENDS Integers, Sequences, FiniteSets, TLC

VARIABLES
    lens,        \* the lens' black border margin (physical, fixed)
    pc,          \* per run: position inside get_calib_data
    args,        \* per run: (chessboard_size, img_size, img_series)
    idx,         \* per run: number of images of img_series traversed
    objp,        \* per run: local objp
    obj_points,  \* per run: local obj_points
    img_points,  \* per run: local img_points
    ret,         \* per run: outcome of get_calib_data
    use_out,     \* last undistort_img / reprojection_error call and outcome
    camera,      \* Camera.__camera
    frame,       \* Camera.__frame
    left_frame,  \* Camera.__left_frame
    right_frame, \* Camera.__right_frame
    frame_size,  \* Camera.__frame_size
    device,      \* the host: indices with a capture device, frames delivered
    cam_out,     \* last Camera method call and outcome
    disk         \* the cv2.imwrite calls made so far: file name and image

calib_vars == <<lens, pc, args, idx, objp, obj_points, img_points, ret>>
cam_vars == <<camera, frame, left_frame, right_frame, frame_size, device, cam_out, disk>>
vars == <<calib_vars, use_out, cam_vars>>

----------------------------------------------------------------------------
(* Bounds *)

MaxImages == 2
GridSpacing == 10
Runs == {1, 2}
Paths == {"missing.png", "blank.png", "board0.png", "board5.png"}
PatternSizes == {<<2, 1>>, <<2, 2>>}
ImgSizes == {<<3, 2>>}
Frames == {<<<<1, 2, 3>>, <<4, 5, 6>>>>, <<<<7, 8, 9>>, <<7, 8, 9>>>>}
UseRuns == {1}
Lenses == {0, 1}
MaxSide == 3
AllPatternSizes == (1..MaxSide) \X (1..MaxSide)
MaxMonoWidth == 2
MaxShots == 3
MAX_CAM_NUM == 3
FrameSizes == {<<w, 1>> : w \in 1..MaxMonoWidth}
ImageTypes == {"LEFT_IMAGE", "RIGHT_IMAGE", "STEREO_IMAGE", "DEPTH_IMAGE"}
MaxWrites == 2
SavedFormats == {"IMG_FMT_PNG", "IMG_FMT_JPG", "IMG_FMT_OTHER"}
Keys == {"q", "s", "U+00FF"}

----------------------------------------------------------------------------
(* Python values *)

PyNone == [type |-> "NoneType", val |-> <<>>]
PyInt(n) == [type |-> "int", val |-> n]
PyTuple(s) == [type |-> "tuple", val |-> s]
PyList(s) == [type |-> "list", val |-> s]
\* a float, kept exact as the fraction n / d
PyFloat(n, d) == [type |-> "float", val |-> <<n, d>>]
NdArray(a) == [type |-> "ndarray", val |-> a]
Return(v) == [kind |-> "return", value |-> v]
Raise(e) == [kind |-> "raise", value |-> e]
Pending == [kind |-> "pending", value |-> PyNone]

Min(a, b) == IF a < b THEN a ELSE b

\* s[lo:hi] of a Python sequence, for lo, hi >= 0
Slice(s, lo, hi) == SubSeq(s, Min(lo, Len(s)) + 1, Min(hi, Len(s)))

SeqsUpTo(S, n) == UNION {[1..k -> S] : k \in 0..n}

----------------------------------------------------------------------------
(* The image files and OpenCV *)

HasBoard(name) == name \in {"board0.png", "board5.png"}
Origin(name) == IF name = "board5.png" THEN <<41, 21>> ELSE <<1, 1>>
Noise(name) == IF name = "board5.png" THEN <<3, 4>> ELSE <<0, 0>>

\* position of corner k (0-based) of the a-wide pattern in a board image
TruePos(name, k, a) ==
    LET n == IF k = 0 THEN Noise(name) ELSE <<0, 0>>
    IN  <<Origin(name)[1] + GridSpacing * (k % a) + n[1],
          Origin(name)[2] + GridSpacing * (k \div a) + n[2]>>

WholePixel(c) == <<c[1] - (c[1] % 2), c[2] - (c[2] % 2)>>

cv2_imread(image) ==
    IF image = "missing.png" THEN PyNone ELSE NdArray([name |-> image])

cv2_cvtColor(img) ==
    IF img.type = "NoneType" THEN Raise("cv2.error") ELSE Return(img)

\* <<ret, corners>>: the a*b corners in whole pixels, row-major
cv2_findChessboardCorners(gray, chessboard_size) ==
    LET a == chessboard_size[1]
        b == chessboard_size[2]
    IN  IF HasBoard(gray.val.name)
        THEN <<TRUE, [k \in 1..(a * b) |-> WholePixel(TruePos(gray.val.name, k - 1, a))]>>
        ELSE <<FALSE, <<>>>>

\* the corners moved to their sub-pixel position in the image
cv2_cornerSubPix(gray, corners, a) ==
    [k \in 1..Len(corners) |-> TruePos(gray.val.name, k - 1, a)]

\* the pose of one view: the translation that puts the last pattern point on
\* its detected corner
FitPose(o3, p2) ==
    LET n == Len(p2)
    IN  <<p2[n][1] - GridSpacing * o3[n][1], p2[n][2] - GridSpacing * o3[n][2]>>

cv2_calibrateCamera(o, i, img_size) ==
    IF Len(o) = 0 \/ Len(o) # Len(i) \/ \E v \in DOMAIN o : Len(o[v]) # Len(i[v])
    THEN Raise("cv2.error")
    ELSE Return([camera_matrix |-> NdArray([f |-> GridSpacing, size |-> img_size]),
                 dist_coeffs |-> NdArray(<<lens>>),
                 rvecs |-> PyTuple([v \in DOMAIN o |-> <<0, 0, 0>>]),
                 tvecs |-> PyTuple([v \in DOMAIN o |-> FitPose(o[v], i[v])])])

\* <<new_camera_matrix, roi>>
cv2_getOptimalNewCameraMatrix(camera_matrix, dist_coeffs, img_size) ==
    LET m == Min(dist_coeffs.val[1], img_size[1])
    IN  <<NdArray([f |-> camera_matrix.val.f, size |-> img_size, alpha |-> 1]),
          PyTuple(<<PyInt(m), PyInt(0), PyInt(img_size[1] - m), PyInt(img_size[2])>>)>>

\* (map_x, map_y): for destination pixel (x, y) the source coordinate
cv2_initUndistortRectifyMap(camera_matrix, dist_coeffs, new_camera_matrix, img_size) ==
    LET w == img_size[1]
        h == img_size[2]
        m == dist_coeffs.val[1]
    IN  PyTuple(<<NdArray([y \in 1..h |-> [x \in 1..w |-> Min(x - 1 + m, w - 1)]]),
                  NdArray([y \in 1..h |-> [x \in 1..w |-> y - 1]])>>)

----------------------------------------------------------------------------
(* calib_data.MonoCalibData *)

MonoCalibData_defaults ==
    [object_points |-> PyNone, image_points |-> PyNone, camera_matrix |-> PyNone,
     dist_coeffs |-> PyNone, rvecs |-> PyNone, tvecs |-> PyNone,
     new_camera_matrix |-> PyNone, remap_roi |-> PyNone, map_x |-> PyNone,
     map_y |-> PyNone]

\* MonoCalibData(...) with the assignment of map_y left out
MonoCalibData_init_NoMapY(object_points, image_points, camera_matrix, dist_coeffs, rvecs, tvecs, new_camera_matrix, remap_roi, img_map) ==
    Return([MonoCalibData_defaults EXCEPT
                !.object_points = object_points,
                !.image_points = image_points,
                !.camera_matrix = camera_matrix,
                !.dist_coeffs = dist_coeffs,
                !.rvecs = rvecs,
                !.tvecs = tvecs,
                !.new_camera_matrix = new_camera_matrix,
                !.map_x = img_map.val[1],
                !.remap_roi = remap_roi])

\* Outcome of MonoCalibData(...): indexing img_map raises when it has no [1]
MonoCalibData_init(object_points, image_points, camera_matrix, dist_coeffs, rvecs, tvecs, new_camera_matrix, remap_roi, img_map) ==
    IF img_map.type \notin {"tuple", "list", "ndarray"} THEN Raise("TypeError")
    ELSE IF Len(img_map.val) < 2 THEN Raise("IndexError")
    ELSE Return([MonoCalibData_defaults EXCEPT
                    !.object_points = object_points,
                    !.image_points = image_points,
                    !.camera_matrix = camera_matrix,
                    !.dist_coeffs = dist_coeffs,
                    !.rvecs = rvecs,
                    !.tvecs = tvecs,
                    !.new_camera_matrix = new_camera_matrix,
                    !.map_x = img_map.val[1],
                    !.map_y = img_map.val[2],
                    !.remap_roi = remap_roi])

----------------------------------------------------------------------------
(* mono_calib.get_calib_data *)

\* np.mgrid[0:a, 0:b]: shape (2, a, b), g[0][i][j] = i and g[1][i][j] = j
np_mgrid(a, b) ==
    <<[i \in 1..a |-> [j \in 1..b |-> i - 1]], [i \in 1..a |-> [j \in 1..b |-> j - 1]]>>

\* g.T of a 3-D array: the axes reversed, t[k][j][i] = g[i][j][k]
np_T(g) ==
    [k \in 1..Len(g[1][1]) |-> [j \in 1..Len(g[1]) |-> [i \in 1..Len(g) |-> g[i][j][k]]]]

\* t.reshape(-1, 2) of a 3-D array: its elements in C order, two per row
np_reshape_pairs(t) ==
    LET d2 == Len(t[1])
        d3 == Len(t[1][1])
        flat == [n \in 1..(Len(t) * d2 * d3) |->
                    t[((n - 1) \div (d2 * d3)) + 1][(((n - 1) \div d3) % d2) + 1][((n - 1) % d3) + 1]]
    IN  [r \in 1..(Len(flat) \div 2) |-> <<flat[2 * r - 1], flat[2 * r]>>]

\* objp with the .T left out: np.mgrid[0:a, 0:b].reshape(-1, 2)
PatternPoints_NoTranspose(chessboard_size) ==
    LET xy == np_reshape_pairs(np_mgrid(chessboard_size[1], chessboard_size[2]))
    IN  [k \in 1..(chessboard_size[1] * chessboard_size[2]) |-> <<xy[k][1], xy[k][2], 0>>]

\* objp: zeros of shape (a*b, 3) with columns 0, 1 set from the grid
PatternPoints(chessboard_size) ==
    LET xy == np_reshape_pairs(np_T(np_mgrid(chessboard_size[1], chessboard_size[2])))
    IN  [k \in 1..(chessboard_size[1] * chessboard_size[2]) |-> <<xy[k][1], xy[k][2], 0>>]

\* The loop body with the appends outside the test of ret
LoopBody_AppendAlways(l, chessboard_size, image) ==
    LET img == cv2_imread(image)
        gray == cv2_cvtColor(img)
    IN  IF gray.kind = "raise" THEN gray
        ELSE LET found == cv2_findChessboardCorners(gray.value, chessboard_size)
             IN  Return([l EXCEPT
                    !.obj_points = Append(@, l.objp),
                    !.img_points = Append(@, found[2])])

\* One iteration of the loop over img_series on the locals l = [objp,
\* obj_points, img_points]: the new locals, or the exception of cvtColor
LoopBody(l, chessboard_size, image) ==
    LET img == cv2_imread(image)
        gray == cv2_cvtColor(img)
    IN  IF gray.kind = "raise" THEN gray
        ELSE LET found == cv2_findChessboardCorners(gray.value, chessboard_size)
             IN  IF found[1]
                 THEN Return([l EXCEPT
                        !.obj_points = Append(@, l.objp),
                        !.img_points = Append(@, cv2_cornerSubPix(gray.value, found[2],
                                                                  chessboard_size[1]))])
                 ELSE Return(l)

\* The code after the loop: solve, new matrix and ROI, maps, the record
Calibrate(l, img_size) ==
    LET solved == cv2_calibrateCamera(l.obj_points, l.img_points, img_size)
    IN  IF solved.kind = "raise" THEN solved
        ELSE LET s == solved.value
                 opt == cv2_getOptimalNewCameraMatrix(s.camera_matrix, s.dist_coeffs, img_size)
                 new_camera_matrix == opt[1]
                 roi == opt[2]
                 remap == cv2_initUndistortRectifyMap(s.camera_matrix, s.dist_coeffs,
                                                      new_camera_matrix, img_size)
             IN  MonoCalibData_init(PyList(l.obj_points), PyList(l.img_points),
                                    s.camera_matrix, s.dist_coeffs, s.rvecs, s.tvecs,
                                    new_camera_matrix, remap, roi)

Locals(p) == [objp |-> objp[p], obj_points |-> obj_points[p], img_points |-> img_points[p]]

\* get_calib_data is called with a pattern size of the set sizes: lines 28-40
CallFrom(p, sizes) ==
    /\ pc[p] = "idle"
    /\ \E cs \in sizes, sz \in ImgSizes, series \in SeqsUpTo(Paths, MaxImages) :
          /\ args' = [args EXCEPT ![p] = [chessboard_size |-> cs, img_size |-> sz,
                                          img_series |-> series]]
          /\ objp' = [objp EXCEPT ![p] = PatternPoints(cs)]
    /\ obj_points' = [obj_points EXCEPT ![p] = <<>>]
    /\ img_points' = [img_points EXCEPT ![p] = <<>>]
    /\ idx' = [idx EXCEPT ![p] = 0]
    /\ pc' = [pc EXCEPT ![p] = "loop"]
    /\ UNCHANGED <<lens, ret, use_out, cam_vars>>

Call(p) == CallFrom(p, PatternSizes)

\* LoopStep with obj_points and img_points kept in one list for all runs
LoopStep_Shared(p) ==
    /\ pc[p] = "loop"
    /\ idx[p] < Len(args[p].img_series)
    /\ LET r == LoopBody(Locals(p), args[p].chessboard_size, args[p].img_series[idx[p] + 1])
       IN  IF r.kind = "raise"
           THEN /\ pc' = [pc EXCEPT ![p] = "done"]
                /\ ret' = [ret EXCEPT ![p] = r]
                /\ UNCHANGED <<obj_points, img_points, idx>>
           ELSE /\ obj_points' = [q \in Runs |-> r.value.obj_points]
                /\ img_points' = [q \in Runs |-> r.value.img_points]
                /\ idx' = [idx EXCEPT ![p] = @ + 1]
                /\ UNCHANGED <<pc, ret>>
    /\ UNCHANGED <<lens, args, objp, use_out, cam_vars>>

\* one image of img_series: lines 44-59
LoopStep(p) ==
    /\ pc[p] = "loop"
    /\ idx[p] < Len(args[p].img_series)
    /\ LET r == LoopBody(Locals(p), args[p].chessboard_size, args[p].img_series[idx[p] + 1])
       IN  IF r.kind = "raise"
           THEN /\ pc' = [pc EXCEPT ![p] = "done"]
                /\ ret' = [ret EXCEPT ![p] = r]
                /\ UNCHANGED <<obj_points, img_points, idx>>
           ELSE /\ obj_points' = [obj_points EXCEPT ![p] = r.value.obj_points]
                /\ img_points' = [img_points EXCEPT ![p] = r.value.img_points]
                /\ idx' = [idx EXCEPT ![p] = @ + 1]
                /\ UNCHANGED <<pc, ret>>
    /\ UNCHANGED <<lens, args, objp, use_out, cam_vars>>

\* after the loop: lines 63-74
Finish(p) ==
    /\ pc[p] = "loop"
    /\ idx[p] = Len(args[p].img_series)
    /\ ret' = [ret EXCEPT ![p] = Calibrate(Locals(p), args[p].img_size)]
    /\ pc' = [pc EXCEPT ![p] = "done"]
    /\ UNCHANGED <<lens, args, idx, objp, obj_points, img_points, use_out, cam_vars>>

\* get_calib_data run start to end with nothing else running
RECURSIVE LoopAlone(_, _, _, _)
LoopAlone(l, chessboard_size, series, i) ==
    IF i > Len(series) THEN Return(l)
    ELSE LET r == LoopBody(l, chessboard_size, series[i])
         IN  IF r.kind = "raise" THEN r
             ELSE LoopAlone(r.value, chessboard_size, series, i + 1)

get_calib_data(chessboard_size, img_size, img_series) ==
    LET l == LoopAlone([objp |-> PatternPoints(chessboard_size), obj_points |-> <<>>,
                        img_points |-> <<>>], chessboard_size, img_series, 1)
    IN  IF l.kind = "raise" THEN l ELSE Calibrate(l.value, img_size)


----------------------------------------------------------------------------
(* mono_calib.undistort_img *)

\* dst(x, y) = src(map_x(x, y), map_y(x, y)), 0 outside src; the maps must be
\* two arrays of one shape
cv2_remap(img, map_x, map_y) ==
    IF \/ map_x.type # "ndarray"
       \/ map_y.type # "ndarray"
       \/ img.type # "ndarray"
    THEN Raise("cv2.error")
    ELSE LET mx == map_x.val
             my == map_y.val
         IN  IF Len(mx) # Len(my) \/ \E y \in DOMAIN mx : Len(mx[y]) # Len(my[y])
             THEN Raise("cv2.error")
             ELSE Return(NdArray(
                    [y \in DOMAIN mx |-> [x \in DOMAIN mx[y] |->
                        LET sx == mx[y][x]
                            sy == my[y][x]
                        IN  IF sy + 1 \in DOMAIN img.val /\ sx + 1 \in DOMAIN img.val[sy + 1]
                            THEN img.val[sy + 1][sx + 1]
                            ELSE 0]]))

\* x1, y1, w, h = t
Unpack4(t) ==
    IF t.type \notin {"tuple", "list", "ndarray"} THEN Raise("TypeError")
    ELSE IF Len(t.val) # 4 THEN Raise("ValueError")
    ELSE Return(t.val)

\* a[y1:y1 + h, x1:x1 + w]
Crop(a, x1, y1, w, h) ==
    IF \E v \in {x1, y1, w, h} : v.type # "int" THEN Raise("TypeError")
    ELSE LET rows == Slice(a.val, y1.val, y1.val + h.val)
         IN  Return(NdArray([y \in DOMAIN rows |-> Slice(rows[y], x1.val, x1.val + w.val)]))

undistort_img(img, mono_calib_data) ==
    LET undistorted_img == cv2_remap(img, mono_calib_data.map_x, mono_calib_data.map_y)
    IN  IF undistorted_img.kind = "raise" THEN undistorted_img
        ELSE LET roi == Unpack4(mono_calib_data.remap_roi)
             IN  IF roi.kind = "raise" THEN roi
                 ELSE Crop(undistorted_img.value, roi.value[1], roi.value[2],
                           roi.value[3], roi.value[4])

----------------------------------------------------------------------------
(* mono_calib.reprojection_error *)

\* the pattern points of one view through its pose and the camera matrix
cv2_projectPoints(o3, rvec, tvec, camera_matrix, dist_coeffs) ==
    [k \in DOMAIN o3 |-> <<tvec[1] + camera_matrix.val.f * o3[k][1],
                           tvec[2] + camera_matrix.val.f * o3[k][2]>>]

ISqrt(n) == CHOOSE r \in 0..n : r * r <= n /\ n < (r + 1) * (r + 1)

RECURSIVE SumSq(_, _, _)
SumSq(a, b, k) ==
    IF k = 0 THEN 0
    ELSE (a[k][1] - b[k][1]) * (a[k][1] - b[k][1])
         + (a[k][2] - b[k][2]) * (a[k][2] - b[k][2]) + SumSq(a, b, k - 1)

\* cv2.norm(a, b, cv2.NORM_L2), to whole units
cv2_norm(a, b) == ISqrt(SumSq(a, b, Len(a)))

\* fractions <<numerator, denominator>>
FracAdd(x, y) == <<x[1] * y[2] + y[1] * x[2], x[2] * y[2]>>
FracDiv(x, n) == <<x[1], x[2] * n>>
FracEq(x, y) == x[1] * y[2] = y[1] * x[2]

\* total_error after views 1..i of the loop
RECURSIVE TotalError(_, _)
TotalError(d, i) ==
    IF i = 0 THEN <<0, 1>>
    ELSE LET img_points_val == cv2_projectPoints(d.object_points.val[i], d.rvecs.val[i],
                                                 d.tvecs.val[i], d.camera_matrix,
                                                 d.dist_coeffs)
             error == FracDiv(<<cv2_norm(d.image_points.val[i], img_points_val), 1>>,
                              Len(img_points_val))
         IN  FracAdd(TotalError(d, i - 1), error)

\* reprojection_error returning the total instead of the mean
reprojection_error_Total(mono_calib_data) ==
    LET n == Len(mono_calib_data.object_points.val)
        total_error == TotalError(mono_calib_data, n)
    IN  IF n = 0 THEN Raise("ZeroDivisionError")
        ELSE Return(PyFloat(total_error[1], total_error[2]))

reprojection_error(mono_calib_data) ==
    LET n == Len(mono_calib_data.object_points.val)
        total_error == TotalError(mono_calib_data, n)
    IN  IF n = 0 THEN Raise("ZeroDivisionError")
        ELSE LET q == FracDiv(total_error, n)
             IN  Return(PyFloat(q[1], q[2]))

----------------------------------------------------------------------------
(* A caller that holds the record of run p uses it *)

NoUse == [fn |-> "none", run |-> 0, img |-> <<>>, out |-> Pending]

Undistort(p, f) ==
    /\ pc[p] = "done"
    /\ ret[p].kind = "return"
    /\ use_out' = [fn |-> "undistort_img", run |-> p, img |-> f,
                   out |-> undistort_img(NdArray(f), ret[p].value)]
    /\ UNCHANGED <<calib_vars, cam_vars>>

\* Reproject with the projected points written over the record's image_points
Reproject_InPlace(p) ==
    /\ pc[p] = "done"
    /\ ret[p].kind = "return"
    /\ use_out' = [fn |-> "reprojection_error", run |-> p, img |-> <<>>,
                   out |-> reprojection_error(ret[p].value)]
    /\ ret' = [ret EXCEPT ![p].value.image_points =
                  PyList([i \in DOMAIN ret[p].value.object_points.val |->
                      cv2_projectPoints(ret[p].value.object_points.val[i],
                                        ret[p].value.rvecs.val[i], ret[p].value.tvecs.val[i],
                                        ret[p].value.camera_matrix, ret[p].value.dist_coeffs)])]
    /\ UNCHANGED <<lens, pc, args, idx, objp, obj_points, img_points, cam_vars>>

Reproject(p) ==
    /\ pc[p] = "done"
    /\ ret[p].kind = "return"
    /\ use_out' = [fn |-> "reprojection_error", run |-> p, img |-> <<>>,
                   out |-> reprojection_error(ret[p].value)]
    /\ UNCHANGED <<calib_vars, cam_vars>>


----------------------------------------------------------------------------
(* cam_ctrl.Camera *)

NoCall == [fn |-> "none", arg |-> <<>>, out |-> Pending]

\* pixel x (1-based) of every row of the n-th frame the device delivers
Pixel(n, x) == n * (2 * MaxMonoWidth + 1) + x

\* the n-th frame of the device, of the size set on it
DeviceFrame(n, size) == NdArray([y \in 1..size[2] |-> [x \in 1..size[1] |-> Pixel(n, x)]])

\* a slice that always starts at column 0: frame[:, 0:hi - lo]
Columns_FromStart(a, lo, hi) == NdArray([y \in DOMAIN a.val |-> Slice(a.val[y], 0, hi - lo)])

\* frame[:, lo:hi]
Columns(a, lo, hi) == NdArray([y \in DOMAIN a.val |-> Slice(a.val[y], lo, hi)])

\* np.zeros(shape, dtype, order): dtype must be a data type
np_zeros(shape, dtype, order) ==
    IF dtype.type # "dtype" THEN Raise("TypeError")
    ELSE IF shape.type = "int" THEN Return(NdArray([x \in 1..shape.val |-> 0]))
    ELSE Return(NdArray([y \in 1..shape.val[1].val |-> [x \in 1..shape.val[2].val |-> 0]]))

\* Camera(init_parameters)
Camera_init(init_frame_size) ==
    /\ frame_size = <<init_frame_size[1] * 2, init_frame_size[2]>>
    /\ camera = PyNone
    /\ frame = PyNone
    /\ left_frame = PyNone
    /\ right_frame = PyNone

\* the loop of open(): the handle after trying the indices i..MAX_CAM_NUM-1
RECURSIVE OpenFrom(_, _)
OpenFrom(i, handle) ==
    IF i >= MAX_CAM_NUM THEN handle
    ELSE IF i \in device.cams
         THEN [type |-> "VideoCapture", val |-> [index |-> i, opened |-> TRUE]]
         ELSE OpenFrom(i + 1, handle)

open ==
    /\ device.shots < MaxShots
    /\ camera' = OpenFrom(1, camera)
    /\ IF camera'.type = "NoneType"
       THEN /\ cam_out' = [fn |-> "open", arg |-> <<>>, out |-> Return("OPEN_CAMERA_FAILED")]
            /\ UNCHANGED device
       ELSE \E retval \in (IF camera'.val.opened THEN BOOLEAN ELSE {FALSE}) :
               /\ device' = [device EXCEPT !.shots = IF camera'.val.opened THEN @ + 1 ELSE @]
               /\ cam_out' = [fn |-> "open", arg |-> <<retval>>,
                              out |-> IF retval THEN Return("OPEN_CAMERA_SUCCESS")
                                      ELSE Return("OPEN_CAMERA_FAILED")]
    /\ UNCHANGED <<frame, left_frame, right_frame, frame_size, disk, calib_vars, use_out>>

\* grab_frame storing the stereo frame before the retrieve result is tested
grab_frame_StoreEarly ==
    /\ device.shots < MaxShots
    /\ IF camera.type = "NoneType"
       THEN /\ cam_out' = [fn |-> "grab_frame", arg |-> <<>>, out |-> Raise("AttributeError")]
            /\ UNCHANGED <<frame, left_frame, right_frame, device>>
       ELSE \E is_grabbed \in (IF camera.val.opened THEN BOOLEAN ELSE {FALSE}),
               is_retrieved \in BOOLEAN :
               IF ~is_grabbed
               THEN /\ cam_out' = [fn |-> "grab_frame", arg |-> <<is_grabbed>>,
                                   out |-> Raise("CameraError")]
                    /\ UNCHANGED <<frame, left_frame, right_frame, device>>
               ELSE IF ~is_retrieved
               THEN /\ cam_out' = [fn |-> "grab_frame", arg |-> <<is_grabbed, is_retrieved>>,
                                   out |-> Raise("CameraError")]
                    /\ device' = [device EXCEPT !.shots = @ + 1]
                    /\ frame' = DeviceFrame(device.shots + 1, frame_size)
                    /\ UNCHANGED <<left_frame, right_frame>>
               ELSE LET f == DeviceFrame(device.shots + 1, frame_size)
                    IN  /\ frame' = f
                        /\ left_frame' = Columns(f, 0, frame_size[1] \div 2)
                        /\ right_frame' = Columns(f, frame_size[1] \div 2, frame_size[1])
                        /\ device' = [device EXCEPT !.shots = @ + 1]
                        /\ cam_out' = [fn |-> "grab_frame",
                                       arg |-> <<is_grabbed, is_retrieved>>,
                                       out |-> Return("GRAB_IMAGE_SUCCESS")]
    /\ UNCHANGED <<camera, frame_size, disk, calib_vars, use_out>>

grab_frame ==
    /\ device.shots < MaxShots
    /\ IF camera.type = "NoneType"
       THEN /\ cam_out' = [fn |-> "grab_frame", arg |-> <<>>, out |-> Raise("AttributeError")]
            /\ UNCHANGED <<frame, left_frame, right_frame, device>>
       ELSE \E is_grabbed \in (IF camera.val.opened THEN BOOLEAN ELSE {FALSE}),
               is_retrieved \in BOOLEAN :
               IF ~is_grabbed
               THEN /\ cam_out' = [fn |-> "grab_frame", arg |-> <<is_grabbed>>,
                                   out |-> Raise("CameraError")]
                    /\ UNCHANGED <<frame, left_frame, right_frame, device>>
               ELSE IF ~is_retrieved
               THEN /\ cam_out' = [fn |-> "grab_frame", arg |-> <<is_grabbed, is_retrieved>>,
                                   out |-> Raise("CameraError")]
                    /\ device' = [device EXCEPT !.shots = @ + 1]
                    /\ UNCHANGED <<frame, left_frame, right_frame>>
               ELSE LET f == DeviceFrame(device.shots + 1, frame_size)
                    IN  /\ frame' = f
                        /\ left_frame' = Columns(f, 0, frame_size[1] \div 2)
                        /\ right_frame' = Columns(f, frame_size[1] \div 2, frame_size[1])
                        /\ device' = [device EXCEPT !.shots = @ + 1]
                        /\ cam_out' = [fn |-> "grab_frame",
                                       arg |-> <<is_grabbed, is_retrieved>>,
                                       out |-> Return("GRAB_IMAGE_SUCCESS")]
    /\ UNCHANGED <<camera, frame_size, disk, calib_vars, use_out>>

get_img(image_type) ==
    /\ cam_out' =
          [fn |-> "get_img", arg |-> <<image_type>>,
           out |->
              IF image_type = "LEFT_IMAGE"
              THEN IF left_frame.type # "NoneType" THEN Return(left_frame)
                   ELSE np_zeros(PyInt(frame_size[1] \div 2), PyInt(frame_size[2]), PyInt(3))
              ELSE IF image_type = "RIGHT_IMAGE"
              THEN IF right_frame.type # "NoneType" THEN Return(right_frame)
                   ELSE np_zeros(PyInt(frame_size[1] \div 2), PyInt(frame_size[2]), PyInt(3))
              ELSE IF image_type = "STEREO_IMAGE"
              THEN IF frame.type # "NoneType" THEN Return(frame)
                   ELSE np_zeros(PyInt(frame_size[1]), PyInt(frame_size[2]), PyInt(3))
              ELSE Raise("CameraError")]
    /\ UNCHANGED <<camera, frame, left_frame, right_frame, frame_size, device, disk,
                   calib_vars, use_out>>

\* release(): VideoCapture.release() closes the handle and raises nothing, and
\* __del__ is empty; with no handle the attribute lookup on None raises
\* AttributeError, which "except RuntimeError" does not catch
release ==
    /\ IF camera.type = "NoneType"
       THEN /\ cam_out' = [fn |-> "release", arg |-> <<>>, out |-> Raise("AttributeError")]
            /\ UNCHANGED camera
       ELSE /\ camera' = [camera EXCEPT !.val.opened = FALSE]
            /\ cam_out' = [fn |-> "release", arg |-> <<>>,
                           out |-> Return("RELEASE_CAMERA_SUCCESS")]
    /\ UNCHANGED <<frame, left_frame, right_frame, frame_size, device, disk, calib_vars,
                   use_out>>

\* ord(key) of a one-character key
ord(key) == CASE key = "q" -> 113 [] key = "s" -> 115 [] key = "U+00FF" -> 255

\* cv2.waitKey(1): the code of the key pressed during the wait, -1 if none was
cv2_waitKey(pressed) == IF pressed = "none" THEN -1 ELSE ord(pressed)

\* n & 0xFF of a Python int (two's complement of unbounded width)
And0xFF(n) == n % 256

\* one branch of get_img_saved: the frame img saved under the name tag
SaveFrame(img, tag, saved_format, call) ==
    IF img.type # "NoneType"
    THEN IF saved_format = "IMG_FMT_PNG"
         THEN /\ disk' = Append(disk, [name |-> tag \o ".png", img |-> img])
              /\ cam_out' = [call EXCEPT !.out = Return("GET_IMAGE_SAVED_SUCCESS")]
         ELSE IF saved_format = "IMG_FMT_JPG"
         THEN /\ disk' = Append(disk, [name |-> tag \o ".jpg", img |-> img])
              /\ cam_out' = [call EXCEPT !.out = Return("GET_IMAGE_SAVED_SUCCESS")]
         ELSE /\ cam_out' = [call EXCEPT !.out = Raise("CameraError")]
              /\ UNCHANGED disk
    ELSE /\ cam_out' = [call EXCEPT !.out = Return("GET_IMAGE_SAVED_FAILED")]
         /\ UNCHANGED disk

\* get_img_saved(image_type, saved_format, saved_dir, key) while the key
\* pressed (or "none") is pending for cv2.waitKey
get_img_saved(image_type, saved_format, key, pressed) ==
    LET call == [fn |-> "get_img_saved",
                 arg |-> <<image_type, saved_format, key, pressed>>, out |-> Pending]
    IN  /\ Len(disk) < MaxWrites
        /\ IF And0xFF(cv2_waitKey(pressed)) = ord(key)
           THEN IF image_type = "LEFT_IMAGE"
                THEN SaveFrame(left_frame, "_left", saved_format, call)
                ELSE IF image_type = "RIGHT_IMAGE"
                THEN SaveFrame(right_frame, "_right", saved_format, call)
                ELSE IF image_type = "STEREO_IMAGE"
                THEN SaveFrame(frame, "_stereo", saved_format, call)
                ELSE /\ cam_out' = [call EXCEPT !.out = Raise("CameraError")]
                     /\ UNCHANGED disk
           ELSE /\ cam_out' = [call EXCEPT !.out = Return("GET_IMAGE_SAVED_SUCCESS")]
                /\ UNCHANGED disk
        /\ UNCHANGED <<camera, frame, left_frame, right_frame, frame_size, device,
                       calib_vars, use_out>>

----------------------------------------------------------------------------
CalibInit ==
    /\ lens \in Lenses
    /\ pc = [p \in Runs |-> "idle"]
    /\ args = [p \in Runs |-> [chessboard_size |-> <<0, 0>>, img_size |-> <<0, 0>>,
                               img_series |-> <<>>]]
    /\ idx = [p \in Runs |-> 0]
    /\ objp = [p \in Runs |-> <<>>]
    /\ obj_points = [p \in Runs |-> <<>>]
    /\ img_points = [p \in Runs |-> <<>>]
    /\ ret = [p \in Runs |-> Pending]
    /\ use_out = NoUse

\* a Camera constructed with one of the frame sizes, on a host with some
\* capture devices
CamInit ==
    /\ \E fs \in FrameSizes : Camera_init(fs)
    /\ device \in [cams : SUBSET (0..(MAX_CAM_NUM - 1)), shots : {0}]
    /\ cam_out = NoCall
    /\ disk = <<>>

\* one calibration run and the uses of its record, with a camera left alone
InitUse ==
    /\ CalibInit
    /\ CamInit
    /\ frame_size = <<2, 1>>
    /\ device.cams = {}

\* two calibration runs on the images of one lens
Init == InitUse /\ lens = 1

Next == \E p \in Runs : Call(p) \/ LoopStep(p) \/ Finish(p)

Spec == Init /\ [][Next]_vars

\* one calibration run and the uses of its record
NextUse ==
    \/ \E p \in UseRuns : Call(p) \/ LoopStep(p) \/ Finish(p)
    \/ \E p \in UseRuns, f \in Frames : Undistort(p, f)
    \/ \E p \in UseRuns : Reproject(p)

SpecUse == InitUse /\ [][NextUse]_vars

\* one calibration run over all pattern sizes up to MaxSide x MaxSide
NextPattern == \E p \in UseRuns : CallFrom(p, AllPatternSizes) \/ LoopStep(p) \/ Finish(p)

SpecPattern == InitUse /\ [][NextPattern]_vars

\* the camera, with the calibration left alone
InitCam == CalibInit /\ lens = 0 /\ CamInit

NextCam ==
    \/ open
    \/ grab_frame
    \/ release
    \/ \E image_type \in ImageTypes : get_img(image_type)

SpecCam == InitCam /\ [][NextCam]_vars

\* a camera on a host with one device, grabbing and saving on key presses
InitSave == InitCam /\ frame_size = <<2, 1>> /\ device.cams = {1}

NextSave ==
    \/ open
    \/ grab_frame
    \/ \E image_type \in ImageTypes, saved_format \in SavedFormats, key \in Keys,
          pressed \in Keys \cup {"none"} :
            get_img_saved(image_type, saved_format, key, pressed)

SpecSave == InitSave /\ [][NextSave]_vars

----------------------------------------------------------------------------
(* Properties *)

Returned(p) == pc[p] = "done" /\ ret[p].kind = "return"

\* what the solve of run p's correspondences yields
SolveOf(p) == cv2_calibrateCamera(obj_points[p], img_points[p], args[p].img_size).value
RoiOf(p) ==
    cv2_getOptimalNewCameraMatrix(SolveOf(p).camera_matrix, SolveOf(p).dist_coeffs,
                                  args[p].img_size)[2]
NewMatrixOf(p) ==
    cv2_getOptimalNewCameraMatrix(SolveOf(p).camera_matrix, SolveOf(p).dist_coeffs,
                                  args[p].img_size)[1]
RemapOf(p) ==
    cv2_initUndistortRectifyMap(SolveOf(p).camera_matrix, SolveOf(p).dist_coeffs,
                                NewMatrixOf(p), args[p].img_size)

\* C1: in every returned record remap_roi is the ROI (x, y, w, h) of the
\* optimal-new-camera-matrix step and map_x, map_y are the two maps of the
\* map-building step, in that order.
C1_RoiAndMapsInTheirFields ==
    \A p \in Runs : Returned(p) =>
        /\ ret[p].value.remap_roi = RoiOf(p)
        /\ ret[p].value.map_x = RemapOf(p).val[1]
        /\ ret[p].value.map_y = RemapOf(p).val[2]

\* C2: every undistort_img call on a returned record, with a frame of the
\* record's image size, returns the remapped frame cropped to the ROI: ROI.h
\* rows of ROI.w columns.
C2_UndistortReturnsRoiSizedFrame ==
    use_out.fn = "undistort_img" =>
        LET roi == RoiOf(use_out.run).val
        IN  /\ use_out.out.kind = "return"
            /\ use_out.out.value.type = "ndarray"
            /\ Len(use_out.out.value.val) = roi[4].val
            /\ \A y \in DOMAIN use_out.out.value.val :
                  Len(use_out.out.value.val[y]) = roi[3].val

\* the images of the traversed part of run p's img_series that show the board
FoundSoFar(p) == SelectSeq(SubSeq(args[p].img_series, 1, idx[p]), HasBoard)

\* C3: the correspondence lists hold one view per traversed image in which the
\* board was found, in the order of img_series, and nothing for the others;
\* both lists have the same length, every view has a*b 3D and a*b 2D points,
\* and an image without a board raises nothing.
C3_OneViewPerFoundImage ==
    \A p \in Runs : pc[p] # "idle" =>
        LET a == args[p].chessboard_size[1]
            b == args[p].chessboard_size[2]
            found == FoundSoFar(p)
        IN  /\ Len(obj_points[p]) = Len(found)
            /\ Len(img_points[p]) = Len(found)
            /\ \A v \in DOMAIN found :
                  /\ Len(obj_points[p][v]) = a * b
                  /\ Len(img_points[p][v]) = a * b
                  /\ \A k \in 1..(a * b) : img_points[p][v][k] = TruePos(found[v], k - 1, a)
            /\ (pc[p] = "done" /\ idx[p] < Len(args[p].img_series)) =>
                  args[p].img_series[idx[p] + 1] = "missing.png"

C3_Witness ==
    \E p \in Runs :
        /\ Returned(p)
        /\ args[p].img_series = <<"blank.png", "board5.png">>
        /\ Len(obj_points[p]) = 1

\* C4: with zero usable views (an empty sequence, or no image with a detected
\* board) the call returns the typed failure InsufficientData.
C4_ZeroViewsReturnInsufficientData ==
    \A p \in Runs :
        (pc[p] = "done" /\ SelectSeq(args[p].img_series, HasBoard) = <<>>) =>
            /\ ret[p].kind = "return"
            /\ ret[p].value.type = "InsufficientData"

\* C5: a finished call either reports a failure or returns a record with all
\* ten fields set, none left at its default None, all from the solve of this
\* call's correspondences.
C5_FailureOrFullRecord ==
    \A p \in Runs : pc[p] = "done" =>
        \/ ret[p].kind = "raise"
        \/ /\ ret[p].kind = "return"
           /\ \A f \in DOMAIN MonoCalibData_defaults : ret[p].value[f] # PyNone
           /\ ret[p].value.object_points = PyList(obj_points[p])
           /\ ret[p].value.image_points = PyList(img_points[p])
           /\ ret[p].value.camera_matrix = SolveOf(p).camera_matrix
           /\ ret[p].value.dist_coeffs = SolveOf(p).dist_coeffs
           /\ ret[p].value.rvecs = SolveOf(p).rvecs
           /\ ret[p].value.tvecs = SolveOf(p).tvecs
           /\ ret[p].value.new_camera_matrix = NewMatrixOf(p)
           /\ \A f \in {"remap_roi", "map_x", "map_y"} :
                 \/ ret[p].value[f] = RoiOf(p)
                 \/ ret[p].value[f] = RemapOf(p)
                 \/ \E k \in DOMAIN RoiOf(p).val : ret[p].value[f] = RoiOf(p).val[k]
                 \/ \E k \in DOMAIN RemapOf(p).val : ret[p].value[f] = RemapOf(p).val[k]

C5_Witness == \E p \in Runs : Returned(p) /\ Len(obj_points[p]) = 2

\* the sum over the views of the L2 norm of (detected - projected)
RECURSIVE SumOfNorms(_, _)
SumOfNorms(d, i) ==
    IF i = 0 THEN 0
    ELSE SumOfNorms(d, i - 1)
         + cv2_norm(d.image_points.val[i],
                    cv2_projectPoints(d.object_points.val[i], d.rvecs.val[i], d.tvecs.val[i],
                                      d.camera_matrix, d.dist_coeffs))

\* C6: on a record with N >= 1 views, each of c points, reprojection_error
\* returns one non-negative number, (1/N) * sum over the views of norm_i / c.
C6_MeanOfPerViewNorms ==
    use_out.fn = "reprojection_error" =>
        LET d == ret[use_out.run].value
            N == Len(d.object_points.val)
            c == Len(d.object_points.val[1])
            r == use_out.out
        IN  /\ N >= 1
            /\ \A i \in 1..N : Len(d.object_points.val[i]) = c
            /\ r.kind = "return"
            /\ r.value.type = "float"
            /\ r.value.val[1] >= 0
            /\ r.value.val[2] > 0
            /\ FracEq(r.value.val, <<SumOfNorms(d, N), c * N>>)

C6_Witness ==
    /\ use_out.fn = "reprojection_error"
    /\ Len(ret[use_out.run].value.object_points.val) = 2
    /\ use_out.out.kind = "return"
    /\ use_out.out.value.val[1] > 0

\* C7: no step changes a field of a record that has been returned, whatever
\* undistort_img and reprojection_error calls are made on it.
C7_RecordImmutable ==
    [][\A p \in UseRuns : Returned(p) => ret'[p] = ret[p]]_vars

C7_Witness ==
    /\ use_out.fn = "undistort_img"
    /\ Returned(use_out.run)
    /\ Len(ret[use_out.run].value.object_points.val) = 2

\* C8: two runs in any interleaving: each finished run's outcome is the one of
\* the same call run alone, and no step of either run changes the outcome of a
\* finished run.
C8_RunsIndependent ==
    /\ [](\A p \in Runs : pc[p] = "done" =>
            ret[p] = get_calib_data(args[p].chessboard_size, args[p].img_size,
                                    args[p].img_series))
    /\ [][\A p \in Runs : pc[p] = "done" => ret'[p] = ret[p]]_vars

C8_Witness ==
    /\ Returned(1)
    /\ Returned(2)
    /\ args[1].img_series = <<"board0.png", "board5.png">>
    /\ args[2].img_series = <<"board5.png", "blank.png">>

\* C9: a grab_frame call in which the device's grab or retrieve step fails
\* returns an integer code to the caller, one other than GRAB_IMAGE_SUCCESS.
C9_FailedGrabReturnsCode ==
    (cam_out.fn = "grab_frame" /\ \E k \in DOMAIN cam_out.arg : ~cam_out.arg[k]) =>
        /\ cam_out.out.kind = "return"
        /\ cam_out.out.value # "GRAB_IMAGE_SUCCESS"

\* the all-zero image of w columns and h rows
ZeroImage(w, h) == NdArray([y \in 1..h |-> [x \in 1..w |-> 0]])

\* C10: while no frame is stored, get_img of LEFT, RIGHT or STEREO returns the
\* all-zero image of the configured size: half the stereo width for LEFT and
\* RIGHT, the stereo width for STEREO.
C10_NoFrameGivesZeroImage ==
    (/\ cam_out.fn = "get_img"
     /\ cam_out.arg[1] \in {"LEFT_IMAGE", "RIGHT_IMAGE", "STEREO_IMAGE"}
     /\ frame.type = "NoneType"
     /\ left_frame.type = "NoneType"
     /\ right_frame.type = "NoneType") =>
        /\ cam_out.out.kind = "return"
        /\ cam_out.out.value =
              ZeroImage(IF cam_out.arg[1] = "STEREO_IMAGE" THEN frame_size[1]
                        ELSE frame_size[1] \div 2, frame_size[2])

\* C11: for every pattern size (a, b) the pattern points are the a*b points
\* (i, j, 0), 0 <= i < a, 0 <= j < b, each once, point k being
\* (k mod a, k div a, 0); every view holds this same list, and corner k of a
\* view is the corner of the grid cell that pattern point k names.
C11_PatternPointsOrder ==
    \A p \in UseRuns : pc[p] # "idle" =>
        LET a == args[p].chessboard_size[1]
            b == args[p].chessboard_size[2]
            found == FoundSoFar(p)
        IN  /\ Len(objp[p]) = a * b
            /\ \A k \in 0..(a * b - 1) : objp[p][k + 1] = <<k % a, k \div a, 0>>
            /\ {objp[p][k] : k \in DOMAIN objp[p]} = {<<i, j, 0>> : i \in 0..(a - 1), j \in 0..(b - 1)}
            /\ Cardinality({objp[p][k] : k \in DOMAIN objp[p]}) = a * b
            /\ \A v \in DOMAIN obj_points[p] :
                  /\ obj_points[p][v] = objp[p]
                  /\ \A k \in 1..(a * b) :
                        LET n == IF k = 1 THEN Noise(found[v]) ELSE <<0, 0>>
                        IN  img_points[p][v][k] =
                              <<Origin(found[v])[1] + GridSpacing * obj_points[p][v][k][1] + n[1],
                                Origin(found[v])[2] + GridSpacing * obj_points[p][v][k][2] + n[2]>>

C11_Witness ==
    \E p \in UseRuns :
        /\ Returned(p)
        /\ args[p].chessboard_size = <<3, 2>>
        /\ Len(obj_points[p]) = 2

C13_OpenTriesEveryIndex ==
    cam_out.fn = "open" =>
        /\ device.cams # {} =>
              /\ camera.type = "VideoCapture"
              /\ \A i \in device.cams : camera.val.index <= i
        /\ (cam_out.out = Return("OPEN_CAMERA_FAILED") /\ cam_out.arg = <<>>) =>
              device.cams = {}

\* C14: release() ends with RELEASE_CAMERA_SUCCESS or RELEASE_CAMERA_FAILED in
\* every state, a camera that holds no device handle included; it raises
\* nothing.
C14_ReleaseReturnsCode ==
    cam_out.fn = "release" =>
        cam_out.out \in {Return("RELEASE_CAMERA_SUCCESS"), Return("RELEASE_CAMERA_FAILED")}

\* the three stored frames are all empty, or the n-th frame of the device and
\* two images made of pixels of that n-th frame only
FramesOfOneGrab ==
    \/ frame.type = "NoneType" /\ left_frame.type = "NoneType" /\ right_frame.type = "NoneType"
    \/ \E n \in 1..device.shots :
          /\ frame = DeviceFrame(n, frame_size)
          /\ left_frame.type = "ndarray" /\ right_frame.type = "ndarray"
          /\ \A half \in {left_frame, right_frame} :
                \A y \in DOMAIN half.val : \A x \in DOMAIN half.val[y] :
                   half.val[y][x] \in {Pixel(n, c) : c \in 1..frame_size[1]}

FailedGrab == cam_out.fn = "grab_frame" /\ cam_out.out.kind = "raise"

\* C15: a grab_frame that fails (no handle, grab failing or retrieve failing)
\* leaves the stored stereo, left and right frames unchanged, and in every
\* state the three stored frames are all empty or all come from one and the
\* same grabbed frame.
C15_FailedGrabKeepsFrames ==
    /\ []FramesOfOneGrab
    /\ [][FailedGrab' => UNCHANGED <<frame, left_frame, right_frame>>]_vars

\* a retrieve that failed after an earlier grab had stored its frames
C15_Witness ==
    /\ FailedGrab
    /\ cam_out.arg = <<TRUE, FALSE>>
    /\ device.shots >= 2
    /\ frame.type = "ndarray"

\* the call that ended in the next state: its arguments and what it did
SavedCall == cam_out'.fn = "get_img_saved"
SavedKeyPressed == cam_out'.arg[4] = cam_out'.arg[3]
SavedWrote == disk' # disk
SavedRequested ==
    CASE cam_out'.arg[1] = "LEFT_IMAGE" -> left_frame
      [] cam_out'.arg[1] = "RIGHT_IMAGE" -> right_frame
      [] cam_out'.arg[1] = "STEREO_IMAGE" -> frame
      [] OTHER -> [type |-> "not a frame", val |-> cam_out'.arg[1]]

\* C16: get_img_saved writes a file only in a call where the save key was
\* pressed, the requested frame (left, right or stereo) is non-empty and the
\* format is PNG or JPG; it returns GET_IMAGE_SAVED_FAILED exactly when the key
\* was pressed and the requested frame is empty; and where the key was not
\* pressed it returns GET_IMAGE_SAVED_SUCCESS and writes nothing.
C16_SaveOnlyOnKeyPress ==
    [][SavedCall =>
        /\ SavedWrote => /\ SavedKeyPressed
                         /\ SavedRequested.type = "ndarray"
                         /\ cam_out'.arg[2] \in {"IMG_FMT_PNG", "IMG_FMT_JPG"}
        /\ cam_out'.out = Return("GET_IMAGE_SAVED_FAILED")
              <=> (SavedKeyPressed /\ SavedRequested.type = "NoneType")
        /\ ~SavedKeyPressed => /\ cam_out'.out = Return("GET_IMAGE_SAVED_SUCCESS")
                               /\ ~SavedWrote]_vars

====
